---------------------------- MODULE Spec2Model ----------------------------
(***************************************************************************)
(* Model of nginx-config-parser: the logos tokenizer `Token` and the stack *)
(* based tree builder `Structure::parse` of src/src/lib.rs.                *)
(*                                                                         *)
(* The input text `cfg` is a sequence of one-character strings.  Offsets   *)
(* are 0-based byte offsets as in the source, so the byte at offset p is   *)
(* cfg[p + 1].                                                             *)
(***************************************************************************)
EXTENDS Integers, Sequences, FiniteSets, TLC

(***************************************************************************)
(* Bounds of the model.                                                    *)
(***************************************************************************)
\* longest input made of the structural characters only
MaxLen == 6
\* longest input over the whole character set
MaxLexLen == 4

(***************************************************************************)
(* Characters.  "a" stands for the Word class of lib.rs:30, " " for the    *)
(* skipped class [ \t] of lib.rs:7, "@" for a byte no rule starts with.    *)
(***************************************************************************)
NL == "\n"
QUOTE == "\""
WordChars == {"a"}
SkipChars == {" "}
StructChars == {"a", " ", "{", "}", ";"}
Chars == StructChars \cup {"#", NL, QUOTE, "(", ")", "@"}

Strings(S, n) == UNION {[1..k -> S] : k \in 0..n}
Inputs == Strings(StructChars, MaxLen) \cup Strings(Chars, MaxLexLen)

Min(S) == CHOOSE x \in S : \A y \in S : x <= y

(***************************************************************************)
(* Token (lib.rs:6-32).  A token is its variant and the slice it carries;  *)
(* the unit variants carry the empty slice.                                *)
(***************************************************************************)
Tok(kind, text) == [kind |-> kind, text |-> text]
ArgKinds == {"QuotedString", "BracedString", "Word"}
IgnoredKinds == {"Comment", "Newline"}

\* offset of the first byte at or after p that is not skipped (lib.rs:7)
RECURSIVE SkipWs(_, _)
SkipWs(s, p) ==
    IF p < Len(s) /\ s[p + 1] \in SkipChars THEN SkipWs(s, p + 1) ELSE p

\* offset of the first occurrence of c at or after p, -1 if there is none
Find(s, c, p) ==
    LET hits == {q \in p..(Len(s) - 1) : s[q + 1] = c}
    IN  IF hits = {} THEN -1 ELSE Min(hits)

\* end offset (exclusive) of the maximal run of Word characters from p
RECURSIVE WordEnd(_, _)
WordEnd(s, p) ==
    IF p < Len(s) /\ s[p + 1] \in WordChars THEN WordEnd(s, p + 1) ELSE p

Slice(s, from, to) == SubSeq(s, from + 1, to)

LexNone == [kind |-> "None", text |-> <<>>, start |-> 0, end |-> 0]
LexErr(p) == [kind |-> "Err", text |-> <<>>, start |-> p, end |-> p]
LexTok(kind, s, p, e) == [kind |-> kind, text |-> s, start |-> p, end |-> e]

\* #[regex(r"#.*\n")] Comment: '#', bytes other than newline, then a newline
LexComment(s, p) ==
    LET q == Find(s, NL, p + 1)
    IN  IF q = -1 THEN LexErr(p) ELSE LexTok("Comment", Slice(s, p, q + 1), p, q + 1)

\* a QuotedString carrying the text between the quotes only
LexQuoted_Stripped(s, p) ==
    LET q == Find(s, QUOTE, p + 1)
    IN  IF q = -1 THEN LexErr(p)
        ELSE LexTok("QuotedString", Slice(s, p + 1, q), p, q + 1)

\* #[regex(r#"\"[^\"]*\""#)] QuotedString
LexQuoted(s, p) ==
    LET q == Find(s, QUOTE, p + 1)
    IN  IF q = -1 THEN LexErr(p)
        ELSE LexTok("QuotedString", Slice(s, p, q + 1), p, q + 1)

\* #[regex(r#"\([^\)]+\)"#)] BracedString: at least one byte between ( and )
LexBraced(s, p) ==
    LET q == Find(s, ")", p + 1)
    IN  IF q = -1 \/ q = p + 1 THEN LexErr(p)
        ELSE LexTok("BracedString", Slice(s, p, q + 1), p, q + 1)

\* one call of lex.next() at offset pos: the token with its span, Err with
\* the offset the failed match started at, or None at end of input
Lex(s, pos) ==
    LET p == SkipWs(s, pos)
    IN  IF p >= Len(s) THEN LexNone
        ELSE LET c == s[p + 1]
             IN  CASE c = "{" -> LexTok("BracketOpen", <<>>, p, p + 1)
                   [] c = "}" -> LexTok("BracketClose", <<>>, p, p + 1)
                   [] c = ";" -> LexTok("Semicolon", <<>>, p, p + 1)
                   [] c = NL -> LexTok("Newline", <<>>, p, p + 1)
                   [] c = "#" -> LexComment(s, p)
                   [] c = QUOTE -> LexQuoted(s, p)
                   [] c = "(" -> LexBraced(s, p)
                   [] c \in WordChars ->
                        LexTok("Word", Slice(s, p, WordEnd(s, p)), p, WordEnd(s, p))
                   [] OTHER -> LexErr(p)

(***************************************************************************)
(* Structure (lib.rs:53-76).                                               *)
(***************************************************************************)
Statement(a) == [kind |-> "Statement", args |-> a]
Block(a, c) == [kind |-> "Block", args |-> a, children |-> c]

\* Structure::args
args(s) == s.args
\* Structure::children; unreachable!() on a Statement
IsBlock(s) == s.kind = "Block"
children(s) == s.children

(***************************************************************************)
(* The arms of the match in Structure::parse, as functions of the builder  *)
(* state b = [stack, current_block, current_statement, panic].             *)
(***************************************************************************)
Builder(st, cb, cs, pn) ==
    [stack |-> st, current_block |-> cb, current_statement |-> cs, panic |-> pn]

\* lib.rs:91-97
InitBuilder == Builder(<<>>, Block(<<>>, <<>>), Statement(<<>>), FALSE)

\* current_block.children().push(x), panicking on a Statement (lib.rs:71-76)
PushChild(blk, x) == Block(blk.args, Append(children(blk), x))

\* the BracketOpen arm saving the pending statement instead of the block
OnBracketOpen_SavesStatement(b) ==
    Builder(Append(b.stack, b.current_statement),
            Block(args(b.current_statement), <<>>),
            Statement(<<>>),
            b.panic)

\* the BracketOpen arm without the reset of current_statement
OnBracketOpen_KeepsPending(b) ==
    Builder(Append(b.stack, b.current_block),
            Block(args(b.current_statement), <<>>),
            b.current_statement,
            b.panic)

\* Token::BracketOpen arm, lib.rs:107-118
OnBracketOpen(b) ==
    Builder(Append(b.stack, b.current_block),
            Block(args(b.current_statement), <<>>),
            Statement(<<>>),
            b.panic)

\* the BracketClose arm putting the closed block before its older siblings
OnBracketClose_PrependsChild(b) ==
    LET flush == args(b.current_statement) # <<>>
        cur == IF flush
               THEN PushChild(b.current_block, Statement(args(b.current_statement)))
               ELSE b.current_block
    IN  IF b.stack = <<>>
        THEN Builder(b.stack, cur, Statement(<<>>), b.panic)
        ELSE LET parent_block == b.stack[Len(b.stack)]
                 popped == SubSeq(b.stack, 1, Len(b.stack) - 1)
                 updated == Block(parent_block.args, <<cur>> \o children(parent_block))
             IN  Builder(Append(popped, updated), updated, Statement(<<>>), b.panic)

\* the BracketClose arm dropping the pending args instead of flushing them
OnBracketClose_NoFlush(b) ==
    IF b.stack = <<>>
    THEN Builder(b.stack, b.current_block, Statement(<<>>), b.panic)
    ELSE LET parent_block == b.stack[Len(b.stack)]
             popped == SubSeq(b.stack, 1, Len(b.stack) - 1)
             updated == PushChild(parent_block, b.current_block)
         IN  Builder(Append(popped, updated), updated, Statement(<<>>), b.panic)

\* Token::BracketClose arm, lib.rs:120-140
OnBracketClose(b) ==
    LET flush == args(b.current_statement) # <<>>
        cur == IF flush /\ IsBlock(b.current_block)
               THEN PushChild(b.current_block, Statement(args(b.current_statement)))
               ELSE b.current_block
        pn == b.panic \/ (flush /\ ~IsBlock(b.current_block))
    IN  IF b.stack = <<>>
        THEN Builder(b.stack, cur, Statement(<<>>), pn)
        ELSE LET parent_block == b.stack[Len(b.stack)]
                 popped == SubSeq(b.stack, 1, Len(b.stack) - 1)
             IN  IF IsBlock(parent_block)
                 THEN LET updated == PushChild(parent_block, cur)
                      IN  Builder(Append(popped, updated), updated, Statement(<<>>), pn)
                 ELSE Builder(popped, cur, Statement(<<>>), pn)

\* the Semicolon arm without the reset of current_statement
OnSemicolon_KeepsArgs(b) ==
    Builder(b.stack,
            PushChild(b.current_block, Statement(args(b.current_statement))),
            b.current_statement,
            b.panic)

\* Token::Semicolon arm, lib.rs:142-147
OnSemicolon(b) ==
    IF IsBlock(b.current_block)
    THEN Builder(b.stack,
                 PushChild(b.current_block, Statement(args(b.current_statement))),
                 Statement(<<>>),
                 b.panic)
    ELSE Builder(b.stack, b.current_block, b.current_statement, TRUE)

\* a Comment or Newline that ends the pending statement like `;`
OnIgnored_EndsStatement(b) ==
    IF args(b.current_statement) = <<>> THEN b ELSE OnSemicolon(b)

\* Token::Comment and Token::Newline arms, lib.rs:149-151
OnIgnored(b) == b

\* Token::QuotedString / BracedString / Word arms, lib.rs:153-155
OnArg(b, t) ==
    Builder(b.stack,
            b.current_block,
            Statement(Append(args(b.current_statement), t)),
            b.panic)

\* after the loop, lib.rs:159-163
Finish(b) ==
    IF b.current_statement.kind = "Statement"
    THEN Block(args(b.current_block) \o args(b.current_statement),
               children(b.current_block))
    ELSE b.current_block

(***************************************************************************)
(* State of one call of Structure::parse.                                  *)
(***************************************************************************)
VARIABLES
    cfg,                \* the input text
    lex,                \* offset of the lexer in cfg
    token,              \* the token of the current iteration
    stack,              \* saved blocks
    current_block,
    current_statement,
    pc,                 \* "loop", "done" or "panic"; "convert", "converted"
    result,             \* the value returned
    value,              \* the Structure given to Directive::try_from
    directive           \* the value Directive::try_from returned

vars ==
    <<cfg, lex, token, stack, current_block, current_statement, pc, result,
      value, directive>>

NoToken == Tok("None", <<>>)
NoResult == [ok |-> "pending"]
Ok(t) == [ok |-> "Ok", tree |-> t]
Err(p) == [ok |-> "Err", start |-> p]

\* no conversion is under way
NoValue == [kind |-> "None"]
NoDirective == [kind |-> "pending"]

builder == Builder(stack, current_block, current_statement, pc = "panic")

Init ==
    /\ cfg \in Inputs
    /\ lex = 0
    /\ token = NoToken
    /\ stack = InitBuilder.stack
    /\ current_block = InitBuilder.current_block
    /\ current_statement = InitBuilder.current_statement
    /\ pc = "loop"
    /\ result = NoResult
    /\ value = NoValue
    /\ directive = NoDirective

\* an iteration that fetches a second token before running the arm
Iterate_ConsumesTwo(k, b) ==
    /\ pc = "loop"
    /\ Lex(cfg, lex).kind = k
    /\ lex' = IF Lex(cfg, Lex(cfg, lex).end).kind \in {"None", "Err"}
              THEN Lex(cfg, lex).end
              ELSE Lex(cfg, Lex(cfg, lex).end).end
    /\ token' = Tok(k, Lex(cfg, lex).text)
    /\ stack' = b.stack
    /\ current_block' = b.current_block
    /\ current_statement' = b.current_statement
    /\ pc' = IF b.panic THEN "panic" ELSE "loop"
    /\ UNCHANGED <<cfg, result, value, directive>>

\* one iteration that fetched a token of kind k and ran its arm to state b
Iterate(k, b) ==
    /\ pc = "loop"
    /\ Lex(cfg, lex).kind = k
    /\ lex' = Lex(cfg, lex).end
    /\ token' = Tok(k, Lex(cfg, lex).text)
    /\ stack' = b.stack
    /\ current_block' = b.current_block
    /\ current_statement' = b.current_statement
    /\ pc' = IF b.panic THEN "panic" ELSE "loop"
    /\ UNCHANGED <<cfg, result, value, directive>>

BracketOpen == Iterate("BracketOpen", OnBracketOpen(builder))
BracketClose == Iterate("BracketClose", OnBracketClose(builder))
Semicolon == Iterate("Semicolon", OnSemicolon(builder))
Comment == Iterate("Comment", OnIgnored(builder))
Newline == Iterate("Newline", OnIgnored(builder))
QuotedString == Iterate("QuotedString", OnArg(builder, Tok("QuotedString", Lex(cfg, lex).text)))
BracedString == Iterate("BracedString", OnArg(builder, Tok("BracedString", Lex(cfg, lex).text)))
Word == Iterate("Word", OnArg(builder, Tok("Word", Lex(cfg, lex).text)))

\* a lexical error taken for the end of input: break instead of return Err
LexError_Break ==
    /\ pc = "loop"
    /\ Lex(cfg, lex).kind = "Err"
    /\ result' = Ok(Finish(builder))
    /\ pc' = "done"
    /\ UNCHANGED <<cfg, lex, token, stack, current_block, current_statement>>
    /\ UNCHANGED <<value, directive>>

\* Some((Err(()), span)) => return Err(format!("{:?}", span)), lib.rs:102
LexError ==
    /\ pc = "loop"
    /\ Lex(cfg, lex).kind = "Err"
    /\ result' = Err(Lex(cfg, lex).start)
    /\ pc' = "done"
    /\ UNCHANGED <<cfg, lex, token, stack, current_block, current_statement>>
    /\ UNCHANGED <<value, directive>>

\* None => break, then lib.rs:159-163
EndOfInput ==
    /\ pc = "loop"
    /\ Lex(cfg, lex).kind = "None"
    /\ result' = Ok(Finish(builder))
    /\ current_block' = Finish(builder)
    /\ pc' = "done"
    /\ UNCHANGED <<cfg, lex, token, stack, current_statement, value, directive>>

Next ==
    \/ BracketOpen
    \/ BracketClose
    \/ Semicolon
    \/ Comment
    \/ Newline
    \/ QuotedString
    \/ BracedString
    \/ Word
    \/ LexError
    \/ EndOfInput

Spec == Init /\ [][Next]_vars

(***************************************************************************)
(* Directive::try_from (types.rs:101-183).  In this part a token's text is *)
(* a sequence of whole words, and a displayed string is such a sequence.   *)
(***************************************************************************)
\* most arguments after the keyword in a converted Statement
MaxArgs == 2

\* str::trim, as used on a Comment's text
RECURSIVE Trim(_)
Trim(s) ==
    IF s = <<>> THEN s
    ELSE IF Head(s) \in SkipChars \cup {NL} THEN Trim(Tail(s))
    ELSE IF s[Len(s)] \in SkipChars \cup {NL} THEN Trim(SubSeq(s, 1, Len(s) - 1))
    ELSE s

\* impl Display for Token, lib.rs:34-47
Display(t) ==
    CASE t.kind = "Comment" -> <<"#", " ">> \o Trim(t.text)
      [] t.kind = "BracketOpen" -> <<"{">>
      [] t.kind = "BracketClose" -> <<"}">>
      [] t.kind = "Semicolon" -> <<";">>
      [] t.kind = "BracedString" -> <<"(">> \o t.text \o <<")">>
      [] t.kind = "QuotedString" -> <<QUOTE>> \o t.text \o <<QUOTE>>
      [] t.kind = "Word" -> t.text
      [] t.kind = "Newline" -> <<NL>>

\* the keywords of the match, types.rs:106-166
Keywords ==
    {"error_log", "access_log", "add_header", "auth_basic",
     "auth_basic_user_file", "http2", "proxy_http_version", "proxy_pass",
     "proxy_hide_header", "proxy_set_header", "server_name", "ssl_cerificate",
     "ssl_certificate_key", "listen"}

\* Option
None == <<>>
Some(x) == <<x>>
\* slice.get(i), 0-based
Get(a, i) == IF i < Len(a) THEN Some(a[i + 1]) ELSE None
\* slice.get(i..), 0-based
GetFrom(a, i) == IF i <= Len(a) THEN Some(SubSeq(a, i + 1, Len(a))) ELSE None

\* u8::to_ascii_lowercase on the words of the model
AsciiLower(w) ==
    CASE w = "ON" -> "on" [] w = "OFF" -> "off" [] OTHER -> w
\* str::eq_ignore_ascii_case
EqIgnoreAsciiCase(d, w) ==
    [i \in 1..Len(d) |-> AsciiLower(d[i])] = <<AsciiLower(w)>>

\* the strings Url::parse and SocketAddr::from_str accept
ValidUrls == {<<"http://h/">>}
ValidSockAddrs == {<<"127.0.0.1:80">>}

\* .iter().map(|s| format!(" {}", s)).collect::<String>(), types.rs:119
RECURSIVE JoinWithSpace(_)
JoinWithSpace(a) ==
    IF a = <<>> THEN <<>> ELSE <<" ">> \o Display(Head(a)) \o JoinWithSpace(Tail(a))
\* .iter().map(|s| format!("{}", s)).collect::<String>(), types.rs:155
RECURSIVE Join(_)
Join(a) == IF a = <<>> THEN <<>> ELSE Display(Head(a)) \o Join(Tail(a))

ConvOk(d) == [kind |-> "Ok", directive |-> d]
ConvErr == [kind |-> "Err"]
\* unreachable!(), types.rs:177
ConvPanic == [kind |-> "Panic"]

\* the arm of keyword k on the args a, types.rs:106-173
KeywordArm(k, a) ==
    LET a1 == Get(a, 1)
        s1 == Display(a1[1])
        anyArg(w) == \E i \in 1..Len(a) : EqIgnoreAsciiCase(Display(a[i]), w)
    IN  CASE k = "error_log" ->
                IF a1 = None THEN ConvErr
                ELSE ConvOk([variant |-> "ErrorLog", path |-> s1,
                             level |-> IF Get(a, 2) = None THEN None
                                       ELSE Some(Display(a[3]))])
          [] k = "access_log" ->
                IF a1 = None THEN ConvErr
                ELSE ConvOk([variant |-> "AccessLog", path |-> s1,
                             compression_enabled |-> FALSE])
          [] k = "add_header" ->
                IF a1 = None \/ GetFrom(a, 2) = None THEN ConvErr
                ELSE ConvOk([variant |-> "AddHeader", name |-> s1,
                             value |-> JoinWithSpace(GetFrom(a, 2)[1])])
          [] k = "auth_basic" ->
                IF a1 = None THEN ConvErr
                ELSE ConvOk([variant |-> "AuthBasic", realm |-> s1])
          [] k = "auth_basic_user_file" ->
                IF a1 = None THEN ConvErr
                ELSE ConvOk([variant |-> "AuthBasicUserFile", file |-> s1])
          [] k = "http2" ->
                IF a1 = None THEN ConvErr
                ELSE ConvOk([variant |-> "Http2",
                             enabled |-> EqIgnoreAsciiCase(s1, "on")
                                         \/ ~EqIgnoreAsciiCase(s1, "off")])
          [] k = "proxy_http_version" ->
                IF a1 = None THEN ConvErr
                ELSE ConvOk([variant |-> "ProxyHttpVersion", version |-> s1])
          [] k = "proxy_pass" ->
                IF a1 = None \/ s1 \notin ValidUrls THEN ConvErr
                ELSE ConvOk([variant |-> "ProxyPass", addr |-> s1])
          [] k = "proxy_hide_header" ->
                IF a1 = None THEN ConvErr
                ELSE ConvOk([variant |-> "ProxyHideHeader", header_name |-> s1])
          [] k = "proxy_set_header" ->
                IF a1 = None \/ Get(a, 2) = None THEN ConvErr
                ELSE ConvOk([variant |-> "ProxySetHeader", header_name |-> s1,
                             header_value |-> Display(a[3])])
          [] k = "server_name" ->
                IF GetFrom(a, 2) = None THEN ConvErr
                ELSE ConvOk([variant |-> "ServerName",
                             name |-> Join(GetFrom(a, 2)[1])])
          [] k = "ssl_cerificate" ->
                IF a1 = None THEN ConvErr
                ELSE ConvOk([variant |-> "SslCertificate", path |-> s1])
          [] k = "ssl_certificate_key" ->
                IF a1 = None THEN ConvErr
                ELSE ConvOk([variant |-> "SslCertificateKey", path |-> s1])
          [] k = "listen" ->
                IF a1 = None \/ s1 \notin ValidSockAddrs THEN ConvErr
                ELSE ConvOk([variant |-> "Listen", sock_addr |-> s1,
                             is_default |-> anyArg("default_server"),
                             is_http2 |-> anyArg("http2"),
                             is_http3 |-> anyArg("http3")])

\* fn try_from, types.rs:103-182
try_from(v) ==
    IF v.kind = "Statement"
    THEN LET first == Get(v.args, 0)
         IN  IF first # None /\ \E k \in Keywords : Display(first[1]) = <<k>>
             THEN KeywordArm(first[1].text[1], v.args)
             ELSE ConvPanic
    ELSE ConvErr

\* the Structures given to try_from
KeywordToks ==
    {Tok("Word", <<k>>) : k \in Keywords \cup {"worker_processes"}}
        \cup {Tok("QuotedString", <<"listen">>)}
ArgToks ==
    {Tok("Word", <<w>>) : w \in {"on", "OFF", "127.0.0.1:80", "http://h/", "http2"}}
DirectiveInputs ==
    {Statement(<<>>)}
        \cup {Statement(<<f>> \o r) : f \in KeywordToks, r \in Strings(ArgToks, MaxArgs)}
        \cup {Block(<<f>>, <<>>) : f \in KeywordToks}

InitDirective ==
    /\ cfg = <<>>
    /\ lex = 0
    /\ token = NoToken
    /\ stack = <<>>
    /\ current_block = InitBuilder.current_block
    /\ current_statement = InitBuilder.current_statement
    /\ result = NoResult
    /\ pc = "convert"
    /\ value \in DirectiveInputs
    /\ directive = NoDirective

\* one call Directive::try_from(value)
TryFrom ==
    /\ pc = "convert"
    /\ directive' = try_from(value)
    /\ pc' = IF try_from(value) = ConvPanic THEN "panic" ELSE "converted"
    /\ UNCHANGED <<cfg, lex, token, stack, current_block, current_statement,
                   result, value>>

NextDirective == TryFrom

SpecDirective == InitDirective /\ [][NextDirective]_vars

(***************************************************************************)
(* Vocabulary of the properties: the token sequence of an input, nesting   *)
(* depth, well-formedness, and the rendering of a tree back to tokens.     *)
(***************************************************************************)
\* every lex.next() result from offset pos up to the first None or Err
RECURSIVE LexSeq(_, _)
LexSeq(s, pos) ==
    LET r == Lex(s, pos)
    IN  IF r.kind \in {"None", "Err"} THEN <<r>> ELSE <<r>> \o LexSeq(s, r.end)

\* the tokens of the input before its end or first lexical error
AllTokens(s) ==
    LET l == LexSeq(s, 0)
    IN  [i \in 1..(Len(l) - 1) |-> Tok(l[i].kind, l[i].text)]
HasLexError(s) == LET l == LexSeq(s, 0) IN l[Len(l)].kind = "Err"
FirstErrorOffset(s) == LET l == LexSeq(s, 0) IN l[Len(l)].start

IsSignificant(t) == t.kind \notin IgnoredKinds
\* the non-comment, non-newline tokens of the input
SigToks(s) == SelectSeq(AllTokens(s), IsSignificant)
\* the tokens already fetched by the loop
Consumed ==
    LET l == LexSeq(cfg, 0)
        n == Cardinality({i \in 1..(Len(l) - 1) : l[i].end <= lex})
    IN  IF lex = 0 THEN <<>> ELSE [i \in 1..n |-> Tok(l[i].kind, l[i].text)]

\* number of blocks open after the tokens t; an excess close opens nothing
RECURSIVE Depth(_)
Depth(t) ==
    IF t = <<>> THEN 0
    ELSE LET d == Depth(SubSeq(t, 1, Len(t) - 1))
             k == t[Len(t)].kind
         IN  CASE k = "BracketOpen" -> d + 1
               [] k = "BracketClose" -> IF d > 0 THEN d - 1 ELSE 0
               [] OTHER -> d
Prefix(t, n) == SubSeq(t, 1, n)

\* every close matches an open, every open is closed
Balanced(t) ==
    /\ Depth(t) = 0
    /\ \A i \in 1..Len(t) : t[i].kind = "BracketClose" => Depth(Prefix(t, i - 1)) > 0
\* every run of argument tokens ends in `;` or is the header of a `{`
Terminated(t) ==
    \A i \in 1..Len(t) :
        t[i].kind \in ArgKinds =>
            /\ i < Len(t)
            /\ t[i + 1].kind \in ArgKinds \cup {"Semicolon", "BracketOpen"}
WellFormed(t) == Balanced(t) /\ Terminated(t)

Semi == Tok("Semicolon", <<>>)
Open == Tok("BracketOpen", <<>>)
Close == Tok("BracketClose", <<>>)

\* a Statement as `args ;`, a Block as `header-args { children }`
RECURSIVE Flatten(_), FlattenSeq(_)
Flatten(n) ==
    IF n.kind = "Statement" THEN n.args \o <<Semi>>
    ELSE n.args \o <<Open>> \o FlattenSeq(n.children) \o <<Close>>
FlattenSeq(c) ==
    IF c = <<>> THEN <<>> ELSE Flatten(Head(c)) \o FlattenSeq(Tail(c))

\* number of Block nodes of a tree, the tree itself included
RECURSIVE BlockCount(_), BlockCountSeq(_)
BlockCount(n) ==
    IF n.kind = "Statement" THEN 0 ELSE 1 + BlockCountSeq(n.children)
BlockCountSeq(c) ==
    IF c = <<>> THEN 0 ELSE BlockCount(Head(c)) + BlockCountSeq(Tail(c))

\* every Statement node of the tree satisfies / some node violates
RECURSIVE HasEmptyStatement(_)
HasEmptyStatement(n) ==
    IF n.kind = "Statement" THEN n.args = <<>>
    ELSE \E i \in 1..Len(n.children) : HasEmptyStatement(n.children[i])

\* the arms applied to a token sequence from builder state b
Arm(b, t) ==
    CASE t.kind = "BracketOpen" -> OnBracketOpen(b)
      [] t.kind = "BracketClose" -> OnBracketClose(b)
      [] t.kind = "Semicolon" -> OnSemicolon(b)
      [] t.kind \in IgnoredKinds -> OnIgnored(b)
      [] OTHER -> OnArg(b, t)
RECURSIVE Run(_, _)
Run(b, t) == IF t = <<>> THEN b ELSE Run(Arm(b, Head(t)), Tail(t))

Returned == pc = "done" /\ result.ok = "Ok"

\* the tokens a returned root renders to: its header, then its children
RootTokens(t) == args(t) \o FlattenSeq(children(t))

(***************************************************************************)
(* C1                                                                      *)
(***************************************************************************)
\* C1: for a lexically valid input whose blocks are all closed and whose
\* statements all end in `;`, the returned tree re-flattens to exactly the
\* input's non-comment, non-newline tokens.
C1_Roundtrip ==
    (Returned /\ WellFormed(SigToks(cfg))) => RootTokens(result.tree) = SigToks(cfg)

(***************************************************************************)
(* C2                                                                      *)
(***************************************************************************)
\* the loop is about to read a `}` that matches an earlier `{`
MatchedClose ==
    pc = "loop" /\ Lex(cfg, lex).kind = "BracketClose" /\ Depth(Consumed) > 0
\* index in Consumed of the `{` the next `}` matches
OpenIndex ==
    LET t == Consumed
        d == Depth(t)
        S == {i \in 1..Len(t) :
                t[i].kind = "BracketOpen" /\ Depth(Prefix(t, i)) = d}
    IN  CHOOSE i \in S : \A j \in S : j <= i
\* the block that was current when that `{` was read
BlockAtOpen == Run(InitBuilder, Prefix(Consumed, OpenIndex - 1)).current_block
\* the block being closed, its trailing statement included
Closing ==
    IF args(current_statement) # <<>>
    THEN PushChild(current_block, Statement(args(current_statement)))
    ELSE current_block

\* C2: a `}` matching an earlier `{` appends the closed block once, as the
\* last child, to the block that was current when that `{` was read, and that
\* parent with the new child becomes the current block, at every depth.
C2_CloseAttachesToParent ==
    [][MatchedClose => current_block' = PushChild(BlockAtOpen, Closing)]_vars

(***************************************************************************)
(* C3                                                                      *)
(***************************************************************************)
NumOpens(t) == Cardinality({i \in 1..Len(t) : t[i].kind = "BracketOpen"})

\* C3: for a well-formed input the returned Block is the root: its header
\* args are empty and it holds no copy of a block, i.e. one Block per `{` of
\* the input besides itself.
C3_ReturnsRoot ==
    (Returned /\ WellFormed(SigToks(cfg))) =>
        /\ args(result.tree) = <<>>
        /\ BlockCount(result.tree) = 1 + NumOpens(SigToks(cfg))

(***************************************************************************)
(* C4                                                                      *)
(***************************************************************************)
\* only non-empty `;`-terminated statements, no braces
FlatStatements(t) ==
    /\ \A i \in 1..Len(t) : t[i].kind \in ArgKinds \cup {"Semicolon"}
    /\ \A i \in 1..Len(t) :
          t[i].kind = "Semicolon" => i > 1 /\ t[i - 1].kind \in ArgKinds
    /\ t # <<>> => t[Len(t)].kind = "Semicolon"

\* one Statement per `;`, holding the tokens read since the previous `;`
RECURSIVE SplitStatements(_, _)
SplitStatements(t, acc) ==
    IF t = <<>> THEN <<>>
    ELSE IF Head(t).kind = "Semicolon"
         THEN <<Statement(acc)>> \o SplitStatements(Tail(t), <<>>)
         ELSE SplitStatements(Tail(t), Append(acc, Head(t)))

\* C4: an input of non-empty `;`-terminated statements and no braces returns
\* a root with empty header whose children are one Statement per `;`, in
\* source order, each with exactly its argument tokens in source order.
C4_FlatStatements ==
    (pc = "done" /\ ~HasLexError(cfg) /\ FlatStatements(SigToks(cfg))) =>
        result = Ok(Block(<<>>, SplitStatements(SigToks(cfg), <<>>)))

\* two statements were returned, one of them with two arguments
C4_Witness ==
    /\ Returned
    /\ FlatStatements(SigToks(cfg))
    /\ Len(children(result.tree)) >= 2
    /\ \E i \in 1..Len(children(result.tree)) :
          Len(args(children(result.tree)[i])) >= 2

(***************************************************************************)
(* C5                                                                      *)
(***************************************************************************)
\* C5: a `;` read with no pending args appends nothing, so no Statement of
\* the current block, of a saved block or of the returned tree is empty.
C5_NoEmptyStatement ==
    /\ ~HasEmptyStatement(current_block)
    /\ \A i \in 1..Len(stack) : ~HasEmptyStatement(stack[i])
    /\ result.ok = "Ok" => ~HasEmptyStatement(result.tree)

(***************************************************************************)
(* C6                                                                      *)
(***************************************************************************)
\* index of the first `{` of t that is never closed
FirstUnclosed(t) ==
    Min({i \in 1..Len(t) :
            /\ t[i].kind = "BracketOpen"
            /\ \A j \in i..Len(t) : Depth(Prefix(t, j)) >= Depth(Prefix(t, i))})
\* index of the first token of the header of the `{` at index i
HeaderStart(t, i) ==
    Min({h \in 1..i : \A k \in h..(i - 1) : t[k].kind \in ArgKinds})
\* the tokens before the header of the first unclosed block
Kept(t) == Prefix(t, HeaderStart(t, FirstUnclosed(t)) - 1)

\* C6: when input ends with blocks still open, the returned Block is the
\* root: its header holds nothing but the pending args merged at the end,
\* and its children are those read before the first unclosed block, so no
\* unclosed block and nothing nested in one is reachable from it.
C6_UnclosedLost ==
    (Returned /\ Depth(SigToks(cfg)) > 0 /\ WellFormed(Kept(SigToks(cfg)))) =>
        /\ args(result.tree) = args(current_statement)
        /\ FlattenSeq(children(result.tree)) = Kept(SigToks(cfg))

(***************************************************************************)
(* C7                                                                      *)
(***************************************************************************)
\* the loop is about to read a `}` with no unclosed `{` before it
ExcessClose ==
    pc = "loop" /\ Lex(cfg, lex).kind = "BracketClose" /\ Depth(Consumed) = 0

\* C7: an excess `}` only flushes the pending args: the stack and the
\* current block's header are unchanged, its children grow by at most the
\* flushed Statement, and no error is returned.
C7_ExcessCloseNoop ==
    [][ExcessClose =>
          /\ stack' = stack
          /\ args(current_block') = args(current_block)
          /\ children(current_block') = children(Closing)
          /\ current_statement' = Statement(<<>>)
          /\ pc' = "loop"
          /\ result' = result]_vars

(***************************************************************************)
(* C8                                                                      *)
(***************************************************************************)
\* C8: pending args left at end of input are appended, in order, to the
\* header of the root, whose header is otherwise empty, and the root is
\* returned, whatever blocks were opened or closed before.
C8_TrailingIntoRoot ==
    (Returned /\ args(current_statement) # <<>>) =>
        args(result.tree) = args(current_statement)

(***************************************************************************)
(* C9                                                                      *)
(***************************************************************************)
\* offset of the first "@", the bytes before it being structural characters
\* or newlines: no quoted, parenthesized or comment region can hide it
LoneAt(s) ==
    LET S == {p \in 0..(Len(s) - 1) : s[p + 1] = "@"}
    IN  IF S # {} /\ \A q \in 0..(Min(S) - 1) : s[q + 1] \in StructChars \cup {NL}
        THEN Min(S) ELSE -1

\* C9: an input with a byte sequence matching no token rule returns an error
\* whose span starts at the offset of its first byte, and no tree, however
\* many valid tokens came before; parse returns no other error.
C9_LexicalError ==
    pc = "done" =>
        /\ HasLexError(cfg) => result = Err(FirstErrorOffset(cfg))
        /\ ~HasLexError(cfg) => result.ok = "Ok"
        /\ LoneAt(cfg) # -1 => result = Err(LoneAt(cfg))
        /\ result.ok = "Err" =>
              cfg[result.start + 1] \notin WordChars \cup SkipChars \cup {"{", "}", ";", NL}

\* an error was returned after at least a statement or a block was built
C9_Witness ==
    /\ pc = "done"
    /\ result.ok = "Err"
    /\ LoneAt(cfg) > 0
    /\ (children(current_block) # <<>> \/ stack # <<>>)

(***************************************************************************)
(* C10                                                                     *)
(***************************************************************************)
\* the loop is about to read a Comment or a Newline
IgnoredStep == pc = "loop" /\ Lex(cfg, lex).kind \in IgnoredKinds

\* some header or Statement of the tree holds a Comment or Newline token
RECURSIVE HasIgnoredToken(_)
HasIgnoredToken(n) ==
    \/ \E i \in 1..Len(n.args) : n.args[i].kind \in IgnoredKinds
    \/ /\ n.kind = "Block"
       /\ \E i \in 1..Len(n.children) : HasIgnoredToken(n.children[i])

C10_NoCommentInTree ==
    /\ ~HasIgnoredToken(current_statement)
    /\ ~HasIgnoredToken(current_block)
    /\ \A i \in 1..Len(stack) : ~HasIgnoredToken(stack[i])
    /\ result.ok = "Ok" => ~HasIgnoredToken(result.tree)

\* the tree of the input is the tree of its tokens without comments, newlines
C10_SameTreeWithout ==
    Returned => result.tree = Finish(Run(InitBuilder, SigToks(cfg)))

\* C10: Comment and Newline tokens leave stack, current block and pending
\* args unchanged; no comment appears in any Statement's or Block's args; the
\* returned tree equals that of the input with comments and newlines removed.
C10_CommentsInert ==
    /\ [][IgnoredStep => UNCHANGED <<stack, current_block, current_statement>>]_vars
    /\ [](C10_NoCommentInTree /\ C10_SameTreeWithout)

\* a tree was returned for an input with a comment inside a statement
C10_Witness ==
    /\ Returned
    /\ children(result.tree) # <<>>
    /\ \E i \in 2..(Len(AllTokens(cfg)) - 1) :
          /\ AllTokens(cfg)[i].kind = "Comment"
          /\ AllTokens(cfg)[i - 1].kind \in ArgKinds
          /\ AllTokens(cfg)[i + 1].kind \in ArgKinds \cup {"Semicolon"}

(***************************************************************************)
(* C11                                                                     *)
(***************************************************************************)
\* the loop is about to read a `{`
OpenStep == pc = "loop" /\ Lex(cfg, lex).kind = "BracketOpen"

\* the argument tokens of t after its last `;`, `{` or `}`
RECURSIVE TrailingArgs(_)
TrailingArgs(t) ==
    IF t = <<>> \/ t[Len(t)].kind \notin ArgKinds THEN <<>>
    ELSE Append(TrailingArgs(SubSeq(t, 1, Len(t) - 1)), t[Len(t)])
\* the tokens fetched so far, comments and newlines left out
SigConsumed == SelectSeq(Consumed, IsSignificant)

\* C11: reading `{` makes a new current block whose header args are exactly
\* the args read since the previous `;`, `{` or `}`, in order, and which has
\* no children; the previous current block goes on top of the stack
\* unchanged and the pending args become empty.
C11_OpenStartsBlock ==
    [][OpenStep =>
          /\ current_block' = Block(TrailingArgs(SigConsumed), <<>>)
          /\ stack' = Append(stack, current_block)
          /\ current_statement' = Statement(<<>>)]_vars

\* a `{` was read after a two-token header inside a block that has a child
C11_Witness ==
    /\ token.kind = "BracketOpen"
    /\ pc = "loop"
    /\ Len(args(current_block)) >= 2
    /\ children(current_block) = <<>>
    /\ Len(stack) >= 1
    /\ children(stack[Len(stack)]) # <<>>

(***************************************************************************)
(* C12                                                                     *)
(***************************************************************************)
\* the loop is about to read a `}` with pending args
CloseWithPending ==
    /\ pc = "loop"
    /\ Lex(cfg, lex).kind = "BracketClose"
    /\ args(current_statement) # <<>>
\* the current block with the pending args as its last child
WithTrailing == PushChild(current_block, Statement(args(current_statement)))

\* C12: a `}` read with pending args first appends them as one trailing
\* Statement, the last child of the block being closed; the block attached
\* to the parent is the one holding that Statement, and the pending args are
\* empty afterwards.
C12_CloseFlushesPending ==
    [][CloseWithPending =>
          /\ current_statement' = Statement(<<>>)
          /\ IF stack = <<>>
             THEN current_block' = WithTrailing
             ELSE /\ children(current_block') # <<>>
                  /\ children(current_block')[Len(children(current_block'))]
                        = WithTrailing
                  /\ children(current_block') =
                        Append(children(stack[Len(stack)]), WithTrailing)]_vars

\* a block was closed right after a directive without `;` and attached to
\* its parent with that directive as its last Statement
C12_Witness ==
    /\ token.kind = "BracketClose"
    /\ pc = "loop"
    /\ stack # <<>>
    /\ children(current_block) # <<>>
    /\ LET closed == children(current_block)[Len(children(current_block))]
       IN  /\ closed.kind = "Block"
           /\ Len(children(closed)) >= 2
           /\ children(closed)[Len(children(closed))].kind = "Statement"
           /\ cfg[lex - 1] \in WordChars
    /\ Depth(SubSeq(Consumed, 1, Len(Consumed) - 1)) > 0

(***************************************************************************)
(* C13                                                                     *)
(***************************************************************************)
\* the next bytes the lexer reads, after skipped ones, are a double-quoted
\* run from offset p to offset q
QuotedRun(p, q) ==
    /\ pc = "loop"
    /\ lex <= p /\ p < q /\ q < Len(cfg)
    /\ \A r \in lex..(p - 1) : cfg[r + 1] \in SkipChars
    /\ cfg[p + 1] = QUOTE
    /\ cfg[q + 1] = QUOTE
    /\ \A r \in (p + 1)..(q - 1) : cfg[r + 1] # QUOTE

\* C13: a double-quoted run becomes exactly one QuotedString argument token
\* whose text is the run verbatim, both quotes included; whatever is inside
\* it ends no statement, opens or closes no block and starts no comment.
C13_QuotedStringVerbatim ==
    [][\A p, q \in 0..(Len(cfg) - 1) :
          QuotedRun(p, q) =>
              /\ token' = Tok("QuotedString", SubSeq(cfg, p + 1, q + 1))
              /\ lex' = q + 1
              /\ current_statement' =
                    Statement(Append(args(current_statement), token'))
              /\ UNCHANGED <<stack, current_block>>
              /\ pc' = "loop"]_vars

\* the returned tree is one Statement whose argument is a quoted `;`, `{`,
\* `}`, `#` or space
C13_Witness ==
    /\ Returned
    /\ Len(children(result.tree)) = 1
    /\ LET st == children(result.tree)[1]
       IN  /\ st.kind = "Statement"
           /\ Len(args(st)) = 1
           /\ args(st)[1].kind = "QuotedString"
           /\ Len(args(st)[1].text) = 3
           /\ args(st)[1].text[1] = QUOTE
           /\ args(st)[1].text[2] \in {";", "{", "}", "#", " "}
           /\ args(st)[1].text[3] = QUOTE

(***************************************************************************)
(* C14                                                                     *)
(***************************************************************************)
\* C14: the stack holds exactly the still-open ancestors of the current
\* block: its depth is the number of `{` read minus the number of matched
\* `}` read, so a matched `}` brings it back to the depth before its `{`.
C14_StackIsOpenAncestors == Len(stack) = Depth(Consumed)

(***************************************************************************)
(* C15                                                                     *)
(***************************************************************************)
\* a Statement with no args or whose first argument is no known keyword
UnknownStatement(v) ==
    /\ v.kind = "Statement"
    /\ \/ v.args = <<>>
       \/ \A k \in Keywords : Display(v.args[1]) # <<k>>

\* C15: converting a Statement whose first argument is not a known keyword,
\* or whose args are empty, returns a value and never panics.
C15_ToleratesUnknown ==
    (pc \in {"converted", "panic"} /\ UnknownStatement(value)) =>
        pc = "converted" /\ directive.kind \in {"Ok", "Err"}

(***************************************************************************)
(* C16                                                                     *)
(***************************************************************************)
\* C16: every iteration of the loop fetches exactly one token and moves the
\* lexer forward within the input, or ends the call with a tree or an error;
\* no step stays in the loop without consuming input.  The distance
\* Len(cfg) - lex thus shrinks at every iteration: the loop ends.
C16_Terminates ==
    /\ [][pc = "loop" =>
             \/ pc' = "done" /\ result'.ok \in {"Ok", "Err"}
             \/ /\ pc' = "loop"
                /\ lex' > lex
                /\ lex' = Lex(cfg, lex).end
                /\ token' = Tok(Lex(cfg, lex).kind, Lex(cfg, lex).text)]_vars
    /\ [](/\ pc \in {"loop", "done"}
          /\ lex <= Len(cfg)
          /\ pc = "done" => result.ok \in {"Ok", "Err"})

\* the call ended after six iterations
C16_Witness == pc = "done" /\ Len(Consumed) >= 6

(***************************************************************************)
(* C17                                                                     *)
(***************************************************************************)
\* C17: in every state of the parse the current block and every entry of
\* the stack are Blocks and the pending statement is a Statement, so
\* Structure::children never hits unreachable!() and the parse never panics.
C17_AlwaysBlocks ==
    /\ IsBlock(current_block)
    /\ \A i \in 1..Len(stack) : IsBlock(stack[i])
    /\ current_statement.kind = "Statement"
    /\ pc # "panic"

\* a parse returned after reading a bare `;` and an excess `}`, with blocks
\* left on the stack
C17_Witness ==
    /\ Returned
    /\ stack # <<>>
    /\ HasEmptyStatement(result.tree)
    /\ \E i \in 1..Len(Consumed) :
          Consumed[i].kind = "BracketClose" /\ Depth(Prefix(Consumed, i - 1)) = 0

(***************************************************************************)
(* C18                                                                     *)
(***************************************************************************)
\* balanced, no block inside a block, every statement non-empty and ended
TopLevelOnly(t) ==
    /\ WellFormed(t)
    /\ \A i \in 1..Len(t) :
          /\ Depth(Prefix(t, i)) <= 1
          /\ t[i].kind = "Semicolon" => i > 1 /\ t[i - 1].kind \in ArgKinds

\* C18: for a lexically valid balanced input with top-level blocks only and
\* non-empty `;`-terminated statements, the returned root has an empty header
\* and its children re-flatten to exactly the input's tokens: the top-level
\* statements and blocks in source order, one Block per `{`, each holding
\* only its own Statements.
C18_SiblingBlocks ==
    (pc = "done" /\ ~HasLexError(cfg) /\ TopLevelOnly(SigToks(cfg))) =>
        /\ result.ok = "Ok"
        /\ IsBlock(result.tree)
        /\ args(result.tree) = <<>>
        /\ FlattenSeq(children(result.tree)) = SigToks(cfg)
        /\ BlockCountSeq(children(result.tree)) = NumOpens(SigToks(cfg))
        /\ \A i \in 1..Len(children(result.tree)) :
              LET c == children(result.tree)[i]
              IN  IsBlock(c) =>
                      \A j \in 1..Len(children(c)) : ~IsBlock(children(c)[j])

\* two sibling blocks were returned, one of them holding a statement
C18_Witness ==
    /\ Returned
    /\ TopLevelOnly(SigToks(cfg))
    /\ Cardinality({i \in 1..Len(children(result.tree)) :
                        IsBlock(children(result.tree)[i])}) >= 2
    /\ \E i \in 1..Len(children(result.tree)) :
          /\ IsBlock(children(result.tree)[i])
          /\ children(children(result.tree)[i]) # <<>>

=============================================================================
